---------------------------- MODULE Spec2Model ----------------------------
(***************************************************************************)
(* One run of the Streamlit script Keyword_Qty_app.py: credentials are     *)
(* resolved, the sidebar controls are read, and when the button was        *)
(* pressed the script calls the DataLab trend endpoint once, aggregates    *)
(* and ranks the returned series, and calls the news endpoint once per     *)
(* ranked keyword.                                                         *)
(*                                                                         *)
(* Text is a sequence of one-character strings; the keyword text area is   *)
(* kept as the sequence of its comma-separated pieces.  A ratio is a       *)
(* natural number and a mean is an exact fraction in lowest terms.  The    *)
(* outbound trend payload keeps its keywordGroups field only: the dates,   *)
(* the time unit and the optional filters do not influence control flow.   *)
(***************************************************************************)
EXTENDS Integers, Sequences, FiniteSets, TLC

VARIABLES
    pc,             \* position of the script run
    cid,            \* NAVER_CLIENT_ID
    csec,           \* NAVER_CLIENT_SECRET
    credWarning,    \* sidebar warning of get_credentials
    run,            \* st.button result
    keywords_text,  \* st.text_area content, as its comma-separated pieces
    keywords,       \* parsed keyword list
    trendCalls,     \* payloads POSTed to the trend endpoint, in order
    trendResp,      \* what came back for the trend call
    trendErr,       \* exception caught around fetch_trend
    trend,          \* decoded trend response
    rows,           \* aggregation rows, in response order
    rank_df,        \* ranking table
    crash,          \* exception that escaped the script
    newsCalls,      \* parameters of the news GETs, in order
    newsResps,      \* what came back for each news call
    sections,       \* rendered news sections, in order
    shown           \* top-level elements rendered on the page

vars == <<pc, cid, csec, credWarning, run, keywords_text, keywords, trendCalls,
          trendResp, trendErr, trend, rows, rank_df, crash, newsCalls,
          newsResps, sections, shown>>

-----------------------------------------------------------------------------
(* Bounds of the model *)

MaxTokens == 6      \* pieces of the keyword text (keyword specification)
MaxResults == 2     \* entries of a trend response (ranking specification)
MaxData == 2        \* data points of one entry (ranking specification)
ApiResults == 2     \* entries of a trend response (pipeline specification)

(* Program constants *)

MaxGroups == 5
NewsDisplay == 5

-----------------------------------------------------------------------------
(* Values *)

NONE == "<None>"
Falsy(x) == x = NONE \/ x = ""
Truthy(x) == ~Falsy(x)

NoExc == [type |-> "", msg |-> "", status |-> 0]
NoResp == [kind |-> "none", status |-> 0, body |-> <<>>]
NoTrend == [hasResults |-> FALSE, results |-> <<>>, decoded |-> FALSE]

AuthMsg == "auth error (401/403), check Client ID/Secret"

SeqsUpTo(S, n) == UNION {[1..k -> S] : k \in 0..n}

Take(s, n) == SubSeq(s, 1, IF Len(s) < n THEN Len(s) ELSE n)

RECURSIVE SumSeq(_)
SumSeq(s) == IF s = <<>> THEN 0 ELSE Head(s) + SumSeq(Tail(s))

RECURSIVE MaxSeq(_)
MaxSeq(s) ==
    IF Len(s) = 1 THEN s[1]
    ELSE LET m == MaxSeq(Tail(s)) IN IF Head(s) >= m THEN Head(s) ELSE m

RECURSIVE GCD(_, _)
GCD(a, b) == IF b = 0 THEN a ELSE GCD(b, a % b)

-----------------------------------------------------------------------------
(* Input domains *)

SecretVals == {NONE, "", "sid"}     \* st.secrets["naver"] entry
EnvVals == {NONE, "eid"}            \* os.environ entry
TypedVals == {"", "tid"}            \* sidebar text_input

Pieces == {<<" ">>, <<"A">>, <<" ", "B", " ">>}
Texts(n) == UNION {[1..k -> Pieces] : k \in 1..n}
ControlTexts == {<<<<" ">>>>, <<<<"A">>>>, <<<<"A">>, <<" ", "B", " ">>>>}

Titles == {"A", "B"}
Ratios == {10, 30}
Statuses == {200, 401, 403, 500}
NetFailures == {"ConnectionError", "Timeout"}

Entry(t, d) == [title |-> t, data |-> d]
TrendBody(rs) == [hasResults |-> TRUE, results |-> rs, decoded |-> TRUE]
AbsentResults == [hasResults |-> FALSE, results |-> <<>>, decoded |-> TRUE]

ApiEntries == {Entry(t, d) : t \in Titles, d \in {<<>>, <<10>>, <<10, 50>>}}
ApiBodies == {AbsentResults} \cup {TrendBody(rs) : rs \in SeqsUpTo(ApiEntries, ApiResults)}

RankEntries == {Entry(t, d) : t \in Titles, d \in SeqsUpTo(Ratios, MaxData)}
RankBodies == {AbsentResults} \cup {TrendBody(rs) : rs \in SeqsUpTo(RankEntries, MaxResults)}

Item1 == [title |-> <<"<b>", "A", "</b>", " news">>, link |-> "http://n/1",
          description |-> <<"about ", "<b>", "A", "</b>">>]
NewsBodies == {[hasItems |-> FALSE, items |-> <<>>],
               [hasItems |-> TRUE, items |-> <<Item1>>]}

HttpResp(st, b) == [kind |-> "http", status |-> st, body |-> b]
NetFail(e) == [kind |-> e, status |-> 0, body |-> <<>>]
Responses(Bodies) ==
    {HttpResp(200, b) : b \in Bodies}
    \cup {HttpResp(st, <<>>) : st \in Statuses \ {200}}
    \cup {NetFail(e) : e \in NetFailures}

-----------------------------------------------------------------------------
(* get_credentials: secrets, then environment, then sidebar input *)

ResolveCredential(secret, env, typed) ==
    LET c1 == secret
        c2 == IF Falsy(c1) THEN env ELSE c1
        c3 == IF Falsy(c2) THEN typed ELSE c2
    IN  c3

(* the pre-flight test of the main script *)
MissingCredentialsAnd(c, s) == Falsy(c) /\ Falsy(s)
MissingCredentials(c, s) == Falsy(c) \/ Falsy(s)

(* str.strip on one piece of the text *)
RECURSIVE LStrip(_)
LStrip(s) == IF s # <<>> /\ Head(s) = " " THEN LStrip(Tail(s)) ELSE s

RECURSIVE RStrip(_)
RStrip(s) ==
    IF s # <<>> /\ s[Len(s)] = " " THEN RStrip(SubSeq(s, 1, Len(s) - 1)) ELSE s

Strip(s) == RStrip(LStrip(s))

(* [k.strip() for k in keywords_text.split(",") if k.strip()] *)
RECURSIVE ParseKeywordList(_)
ParseKeywordList(ps) ==
    IF ps = <<>> THEN <<>>
    ELSE IF Strip(Head(ps)) # <<>>
         THEN <<Strip(Head(ps))>> \o ParseKeywordList(Tail(ps))
         ELSE ParseKeywordList(Tail(ps))

(* fetch_trend: the keywordGroups of the payload *)
AllGroups(kws) == [i \in 1..Len(kws) |-> [groupName |-> kws[i], keywords |-> <<kws[i]>>]]
KeywordGroupsUncut(kws) == AllGroups(kws)
KeywordGroups(kws) == Take(AllGroups(kws), MaxGroups)

(* the status handling shared by fetch_trend and fetch_news_snippets *)
Raised(e) == [raised |-> TRUE, exc |-> e, value |-> <<>>]
Returned(v) == [raised |-> FALSE, exc |-> NoExc, value |-> v]

fetch_trend_unchecked(resp) ==
    IF resp.kind # "http"
    THEN Raised([type |-> resp.kind, msg |-> "network", status |-> 0])
    ELSE IF resp.status = 401 \/ resp.status = 403
    THEN Raised([type |-> "RuntimeError", msg |-> AuthMsg, status |-> 0])
    ELSE Returned(IF resp.status = 200 THEN resp.body ELSE AbsentResults)
fetch_trend(resp) ==
    IF resp.kind # "http"
    THEN Raised([type |-> resp.kind, msg |-> "network", status |-> 0])
    ELSE IF resp.status = 401 \/ resp.status = 403
    THEN Raised([type |-> "RuntimeError", msg |-> AuthMsg, status |-> 0])
    ELSE IF resp.status >= 400
    THEN Raised([type |-> "HTTPError", msg |-> "status", status |-> resp.status])
    ELSE Returned(resp.body)

fetch_news_snippets_401(resp) ==
    IF resp.kind # "http"
    THEN Raised([type |-> resp.kind, msg |-> "network", status |-> 0])
    ELSE IF resp.status = 401
    THEN Raised([type |-> "RuntimeError", msg |-> AuthMsg, status |-> 0])
    ELSE IF resp.status >= 400
    THEN Raised([type |-> "HTTPError", msg |-> "status", status |-> resp.status])
    ELSE Returned(IF resp.body.hasItems THEN resp.body.items ELSE <<>>)
fetch_news_snippets(resp) ==
    IF resp.kind # "http"
    THEN Raised([type |-> resp.kind, msg |-> "network", status |-> 0])
    ELSE IF resp.status = 401 \/ resp.status = 403
    THEN Raised([type |-> "RuntimeError", msg |-> AuthMsg, status |-> 0])
    ELSE IF resp.status >= 400
    THEN Raised([type |-> "HTTPError", msg |-> "status", status |-> resp.status])
    ELSE Returned(IF resp.body.hasItems THEN resp.body.items ELSE <<>>)

(* aggregation of one entry of the response *)
Mean(d) ==
    LET s == SumSeq(d)
        g == GCD(s, Len(d))
    IN  [num |-> s \div g, den |-> Len(d) \div g]

Row(res) == [kw |-> res.title, avg |-> Mean(res.data),
             max |-> MaxSeq(res.data), last |-> res.data[Len(res.data)]]

Results(t) == IF t.hasResults THEN t.results ELSE <<>>

NoRowsNever(rs) == FALSE
NoRows(rs) == rs = <<>>

(* comparison of two means *)
Geq(a, b) == a.num * b.den >= b.num * a.den
Leq(a, b) == Geq(b, a)

Perms(n) == {p \in [1..n -> 1..n] : \A i, j \in 1..n : i # j => p[i] # p[j]}
Permute(s, p) == [i \in 1..Len(s) |-> s[p[i]]]

SortedDesc(s) == \A i \in 1..(Len(s) - 1) : Geq(s[i].avg, s[i + 1].avg)
SortedAsc(s) == \A i \in 1..(Len(s) - 1) : Leq(s[i].avg, s[i + 1].avg)

(* DataFrame.sort_values("avg", ascending=False) with the default kind,     *)
(* quicksort, which is not a stable sort: every descending arrangement of  *)
(* the rows is a possible result.                                          *)
sort_values_ascending(rs) ==
    {Permute(rs, p) : p \in {q \in Perms(Len(rs)) : SortedAsc(Permute(rs, q))}}
sort_values(rs) ==
    {Permute(rs, p) : p \in {q \in Perms(Len(rs)) : SortedDesc(Permute(rs, q))}}

(* rank_df["kw"].tolist(), the order of the news loop *)
Reverse(s) == [i \in 1..Len(s) |-> s[Len(s) + 1 - i]]
NewsKeywordsReversed(df) == Reverse([i \in 1..Len(df) |-> df[i].kw])
NewsKeywords(df) == [i \in 1..Len(df) |-> df[i].kw]

(* str.replace("<b>", "").replace("</b>", "") on a text kept in pieces *)
Sanitize(t) == SelectSeq(t, LAMBDA x : x # "<b>" /\ x # "</b>")

Rendered(item) == [title |-> Sanitize(item.title), link |-> item.link,
                   description |-> Sanitize(item.description)]

(* where the news loop goes after one keyword's section *)
AfterNewsAbort(out, i, n) ==
    IF out.raised THEN "stopped" ELSE IF i = n THEN "done" ELSE "news"
AfterNews(out, i, n) == IF i = n THEN "done" ELSE "news"

-----------------------------------------------------------------------------
(* The script run *)

Init ==
    /\ pc = "creds"
    /\ cid = NONE
    /\ csec = NONE
    /\ credWarning = FALSE
    /\ run = FALSE
    /\ keywords_text = <<>>
    /\ keywords = <<>>
    /\ trendCalls = <<>>
    /\ trendResp = NoResp
    /\ trendErr = NoExc
    /\ trend = NoTrend
    /\ rows = <<>>
    /\ rank_df = <<>>
    /\ crash = NoExc
    /\ newsCalls = <<>>
    /\ newsResps = <<>>
    /\ sections = <<>>
    /\ shown = {}

(* NAVER_CLIENT_ID, NAVER_CLIENT_SECRET = get_credentials() *)
get_credentials ==
    /\ pc = "creds"
    /\ \E sc \in SecretVals, ss \in SecretVals, ec \in EnvVals, es \in EnvVals,
          tc \in TypedVals, ts \in TypedVals :
          LET c == ResolveCredential(sc, ec, tc)
              s == ResolveCredential(ss, es, ts)
          IN  /\ cid' = c
              /\ csec' = s
              /\ credWarning' = ~(Truthy(c) /\ Truthy(s))
    /\ pc' = "controls"
    /\ UNCHANGED <<run, keywords_text, keywords, trendCalls, trendResp, trendErr,
                   trend, rows, rank_df, crash, newsCalls, newsResps, sections,
                   shown>>

(* the sidebar controls: the keyword text area and the button *)
Controls ==
    /\ pc = "controls"
    /\ \E b \in BOOLEAN, t \in ControlTexts :
          /\ run' = b
          /\ keywords_text' = t
    /\ pc' = "preflight"
    /\ UNCHANGED <<cid, csec, credWarning, keywords, trendCalls, trendResp,
                   trendErr, trend, rows, rank_df, crash, newsCalls, newsResps,
                   sections, shown>>

(* if run and (not id or not secret): st.error; st.stop() *)
PreflightRefuse ==
    /\ pc = "preflight"
    /\ run /\ MissingCredentials(cid, csec)
    /\ shown' = shown \cup {"cred_error"}
    /\ pc' = "stopped"
    /\ UNCHANGED <<cid, csec, credWarning, run, keywords_text, keywords,
                   trendCalls, trendResp, trendErr, trend, rows, rank_df, crash,
                   newsCalls, newsResps, sections>>

PreflightPass ==
    /\ pc = "preflight"
    /\ ~(run /\ MissingCredentials(cid, csec))
    /\ pc' = IF run THEN "parse" ELSE "done"
    /\ UNCHANGED <<cid, csec, credWarning, run, keywords_text, keywords,
                   trendCalls, trendResp, trendErr, trend, rows, rank_df, crash,
                   newsCalls, newsResps, sections, shown>>

(* keywords = [...]; if not keywords: st.warning; st.stop() *)
ParseKeywords ==
    /\ pc = "parse"
    /\ keywords' = ParseKeywordList(keywords_text)
    /\ IF keywords' = <<>>
       THEN /\ shown' = shown \cup {"keyword_warning"}
            /\ pc' = "stopped"
       ELSE /\ shown' = shown
            /\ pc' = "send_trend"
    /\ UNCHANGED <<cid, csec, credWarning, run, keywords_text, trendCalls,
                   trendResp, trendErr, trend, rows, rank_df, crash, newsCalls,
                   newsResps, sections>>

(* fetch_trend up to requests.post: the payload goes out *)
SendTrendRequest ==
    /\ pc = "send_trend"
    /\ trendCalls' = Append(trendCalls, [keywordGroups |-> KeywordGroups(keywords)])
    /\ pc' = "await_trend"
    /\ UNCHANGED <<cid, csec, credWarning, run, keywords_text, keywords,
                   trendResp, trendErr, trend, rows, rank_df, crash, newsCalls,
                   newsResps, sections, shown>>

(* the rest of fetch_trend and the try/except around it *)
TrendResponse ==
    /\ pc = "await_trend"
    /\ \E resp \in Responses(ApiBodies) :
          LET out == fetch_trend(resp)
          IN  /\ trendResp' = resp
              /\ IF out.raised
                 THEN /\ trendErr' = out.exc
                      /\ trend' = trend
                      /\ shown' = shown \cup {"trend_error"}
                      /\ pc' = "stopped"
                 ELSE /\ trendErr' = trendErr
                      /\ trend' = out.value
                      /\ shown' = shown
                      /\ pc' = "rows"
    /\ UNCHANGED <<cid, csec, credWarning, run, keywords_text, keywords,
                   trendCalls, rows, rank_df, crash, newsCalls, newsResps,
                   sections>>

(* the aggregation loop; an entry without data points has no "ratio" column *)
(* and series["ratio"] raises KeyError, which nothing catches               *)
BuildRows ==
    /\ pc = "rows"
    /\ LET rs == Results(trend)
       IN  IF \E i \in 1..Len(rs) : rs[i].data = <<>>
           THEN /\ crash' = [type |-> "KeyError", msg |-> "ratio", status |-> 0]
                /\ rows' = rows
                /\ shown' = shown
                /\ pc' = "crashed"
           ELSE /\ crash' = crash
                /\ rows' = [i \in 1..Len(rs) |-> Row(rs[i])]
                /\ IF NoRows(rows')
                   THEN /\ shown' = shown \cup {"no_data_info"}
                        /\ pc' = "stopped"
                   ELSE /\ shown' = shown
                        /\ pc' = "sort"
    /\ UNCHANGED <<cid, csec, credWarning, run, keywords_text, keywords,
                   trendCalls, trendResp, trendErr, trend, rank_df, newsCalls,
                   newsResps, sections>>

(* rank_df = DataFrame(rows).sort_values(...); st.dataframe(rank_df).  A    *)
(* frame built from no rows has no column to sort by (KeyError); the test  *)
(* before it keeps the script from getting here with no rows.              *)
SortRanking ==
    /\ pc = "sort"
    /\ IF rows = <<>>
       THEN /\ crash' = [type |-> "KeyError", msg |-> "avg", status |-> 0]
            /\ rank_df' = rank_df
            /\ shown' = shown
            /\ pc' = "crashed"
       ELSE /\ crash' = crash
            /\ rank_df' \in sort_values(rows)
            /\ shown' = shown \cup {"rank_table"}
            /\ pc' = "news"
    /\ UNCHANGED <<cid, csec, credWarning, run, keywords_text, keywords,
                   trendCalls, trendResp, trendErr, trend, rows, newsCalls,
                   newsResps, sections>>

(* fetch_news_snippets up to requests.get, for the next ranked keyword *)
SendNewsRequest ==
    /\ pc = "news"
    /\ LET i == Len(sections) + 1
       IN  newsCalls' = Append(newsCalls,
               [query |-> NewsKeywords(rank_df)[i], display |-> NewsDisplay,
                sort |-> "date"])
    /\ pc' = "await_news"
    /\ UNCHANGED <<cid, csec, credWarning, run, keywords_text, keywords,
                   trendCalls, trendResp, trendErr, trend, rows, rank_df, crash,
                   newsResps, sections, shown>>

(* the rest of fetch_news_snippets, the try/except and the section's body *)
NewsResponse ==
    /\ pc = "await_news"
    /\ \E resp \in Responses(NewsBodies) :
          LET out == fetch_news_snippets(resp)
              i == Len(sections) + 1
              news == IF out.raised THEN <<>> ELSE out.value
          IN  /\ newsResps' = Append(newsResps, resp)
              /\ sections' = Append(sections,
                     [kw |-> NewsKeywords(rank_df)[i],
                      warning |-> out.exc,
                      none |-> (news = <<>>),
                      items |-> [k \in 1..Len(news) |-> Rendered(news[k])]])
              /\ pc' = AfterNews(out, i, Len(rank_df))
    /\ UNCHANGED <<cid, csec, credWarning, run, keywords_text, keywords,
                   trendCalls, trendResp, trendErr, trend, rows, rank_df, crash,
                   newsCalls, shown>>

Next ==
    \/ get_credentials
    \/ Controls
    \/ PreflightRefuse
    \/ PreflightPass
    \/ ParseKeywords
    \/ SendTrendRequest
    \/ TrendResponse
    \/ BuildRows
    \/ SortRanking
    \/ SendNewsRequest
    \/ NewsResponse

Spec == Init /\ [][Next]_vars

-----------------------------------------------------------------------------
(* Keyword parsing and payload construction over long keyword texts *)

InitKw ==
    /\ pc = "parse"
    /\ cid = "sid"
    /\ csec = "sid"
    /\ credWarning = FALSE
    /\ run = TRUE
    /\ keywords_text \in Texts(MaxTokens)
    /\ keywords = <<>>
    /\ trendCalls = <<>>
    /\ trendResp = NoResp
    /\ trendErr = NoExc
    /\ trend = NoTrend
    /\ rows = <<>>
    /\ rank_df = <<>>
    /\ crash = NoExc
    /\ newsCalls = <<>>
    /\ newsResps = <<>>
    /\ sections = <<>>
    /\ shown = {}

NextKw == ParseKeywords \/ SendTrendRequest

SpecKw == InitKw /\ [][NextKw]_vars

(* Aggregation and ranking over larger trend responses *)

InitRank ==
    /\ pc = "rows"
    /\ cid = "sid"
    /\ csec = "sid"
    /\ credWarning = FALSE
    /\ run = TRUE
    /\ keywords_text = <<<<"A">>, <<" ", "B", " ">>>>
    /\ keywords = ParseKeywordList(keywords_text)
    /\ trendCalls = <<[keywordGroups |-> KeywordGroups(keywords)]>>
    /\ trend \in RankBodies
    /\ trendResp = HttpResp(200, trend)
    /\ trendErr = NoExc
    /\ rows = <<>>
    /\ rank_df = <<>>
    /\ crash = NoExc
    /\ newsCalls = <<>>
    /\ newsResps = <<>>
    /\ sections = <<>>
    /\ shown = {}

NextRank == BuildRows \/ SortRanking

SpecRank == InitRank /\ [][NextRank]_vars

-----------------------------------------------------------------------------
(* Properties *)

Failed(resp) == resp.kind # "http" \/ resp.status >= 400
IsAuthError(e) == e.type = "RuntimeError" /\ e.msg = AuthMsg
IsRequestError(e) == e.type \in {"HTTPError", "ConnectionError", "Timeout"}
NonEmptyData(t) == \A i \in 1..Len(Results(t)) : Results(t)[i].data # <<>>

(* C1: a run triggered while the client id or the client secret is missing *)
(* or empty (one of them is enough) is refused locally: it stops with the  *)
(* credential error on the page and issues no trend call and no news call. *)
C1_RefusedWithoutCredentials ==
    (run /\ pc \notin {"creds", "controls"} /\ (Falsy(cid) \/ Falsy(csec)))
        => /\ trendCalls = <<>>
           /\ trendResp = NoResp
           /\ newsCalls = <<>>
           /\ pc \in {"preflight", "stopped"}
           /\ pc = "stopped" => "cred_error" \in shown

C1_Witness ==
    /\ pc = "stopped"
    /\ "cred_error" \in shown
    /\ Truthy(cid)
    /\ Falsy(csec)

(* C2: when the trend call fails (auth status, other error status, network *)
(* failure or timeout) the run halts with an error shown, no ranking table *)
(* and no news call; a ranking table is on the page only in a run whose    *)
(* single trend call came back with success.                               *)
C2_TrendFailureHalts ==
    /\ (trendResp # NoResp /\ Failed(trendResp))
          => /\ pc = "stopped"
             /\ "trend_error" \in shown
             /\ "rank_table" \notin shown
             /\ rank_df = <<>>
             /\ newsCalls = <<>>
    /\ "rank_table" \in shown
          => /\ Len(trendCalls) = 1
             /\ trendResp.kind = "http"
             /\ trendResp.status = 200
             /\ trendErr = NoExc

C2_Witness ==
    /\ pc = "stopped"
    /\ trendResp.kind = "http"
    /\ trendResp.status = 500
    /\ "trend_error" \in shown

(* C3: a failed news call for one ranked keyword leaves that keyword's     *)
(* section failed and empty and does not end the run: every keyword ranked *)
(* after it still gets its own news call and its own section.              *)
C3_NewsFailureIsolated ==
    \A i \in 1..Len(newsResps) :
        Failed(newsResps[i])
            => /\ sections[i].kw = rank_df[i].kw
               /\ sections[i].warning # NoExc
               /\ sections[i].none
               /\ sections[i].items = <<>>
               /\ pc \in {"news", "await_news", "done"}
               /\ pc = "done"
                     => /\ Len(newsCalls) = Len(rank_df)
                        /\ Len(sections) = Len(rank_df)
                        /\ \A j \in (i + 1)..Len(rank_df) :
                              /\ newsCalls[j].query = rank_df[j].kw
                              /\ sections[j].kw = rank_df[j].kw

C3_Witness ==
    /\ pc = "done"
    /\ Len(sections) = 2
    /\ newsResps[1].status = 401
    /\ ~Failed(newsResps[2])
    /\ sections[2].items # <<>>

(* C4: the news calls follow the ranking: one call per ranked keyword, in  *)
(* ranking order (highest mean first), all after the single trend call,    *)
(* and never more calls than ranked keywords (no call is repeated).        *)
C4_NewsCallsFollowRanking ==
    /\ Len(trendCalls) <= 1
    /\ newsCalls # <<>> => (Len(trendCalls) = 1 /\ trendResp.status = 200)
    /\ Len(newsCalls) <= Len(rank_df)
    /\ \A i \in 1..Len(newsCalls) : newsCalls[i].query = rank_df[i].kw
    /\ SortedDesc(rank_df)
    /\ (pc = "done" /\ rank_df # <<>>) => Len(newsCalls) = Len(rank_df)

C4_Witness ==
    /\ pc = "done"
    /\ Len(newsCalls) = 2
    /\ rows[1].kw = "A"
    /\ rank_df[1].kw = "B"
    /\ ~Geq(rows[1].avg, rows[2].avg)
    /\ Failed(newsResps[1])

(* C5: when every entry of the trend response has data points, the        *)
(* ranking has one row per entry (none dropped, none duplicated) and is    *)
(* sorted by mean ratio, descending.                                       *)
C5_RankingCompleteAndSorted ==
    (pc \notin {"rows", "sort"} /\ NonEmptyData(trend))
        => LET rs == Results(trend)
               expected == [i \in 1..Len(rs) |-> Row(rs[i])]
           IN  /\ Len(rank_df) = Len(rs)
               /\ \E p \in Perms(Len(rs)) : rank_df = Permute(expected, p)
               /\ \A i \in 1..(Len(rank_df) - 1) :
                     rank_df[i].avg.num * rank_df[i + 1].avg.den
                         >= rank_df[i + 1].avg.num * rank_df[i].avg.den

C5_Witness ==
    /\ pc = "news"
    /\ Len(rank_df) = 2
    /\ rank_df[1] = rows[2]
    /\ ~Geq(rank_df[2].avg, rank_df[1].avg)

(* C6: the ranking is a stable sort: rows with equal mean ratio keep the   *)
(* relative order they had in the trend response.                          *)
C6_StableRanking ==
    "rank_table" \in shown
        => \E p \in Perms(Len(rows)) :
              /\ rank_df = Permute(rows, p)
              /\ \A i, j \in 1..Len(rows) :
                    (i < j /\ rows[p[i]].avg = rows[p[j]].avg) => p[i] < p[j]

(* C7: an entry without data points does not crash the ranking: it is      *)
(* excluded, or the step fails with the dedicated EmptyDataError; no other *)
(* exception escapes the run.                                              *)
C7_EmptyDataDoesNotCrash ==
    (trend.decoded /\ ~NonEmptyData(trend))
        => /\ pc # "crashed"
           /\ crash = NoExc \/ crash.type = "EmptyDataError"

(* C8: the keywordGroups of the outbound trend request are the first       *)
(* min(5, n) parsed keywords in input order, each a group named after the  *)
(* keyword and holding that keyword only; never more than 5.               *)
C8_KeywordGroupsTruncated ==
    trendCalls # <<>>
        => LET g == trendCalls[1].keywordGroups
               n == Len(keywords)
               m == IF n < 5 THEN n ELSE 5
           IN  /\ Len(g) <= 5
               /\ Len(g) = m
               /\ \A i \in 1..m :
                     /\ g[i].groupName = keywords[i]
                     /\ g[i].keywords = <<keywords[i]>>

C8_Witness ==
    /\ trendCalls # <<>>
    /\ Len(keywords) > 5
    /\ Len(trendCalls[1].keywordGroups) = 5

(* C9: a successful trend response whose results are empty or absent ends  *)
(* the run in the informational no-data state: no error, no ranking table, *)
(* no news call.                                                           *)
C9_EmptyResultsInformational ==
    (trend.decoded /\ Results(trend) = <<>> /\ pc # "rows")
        => /\ pc = "stopped"
           /\ "no_data_info" \in shown
           /\ "trend_error" \notin shown
           /\ "rank_table" \notin shown
           /\ crash = NoExc
           /\ rank_df = <<>>
           /\ newsCalls = <<>>

C9_Witness ==
    /\ pc = "stopped"
    /\ "no_data_info" \in shown
    /\ trend.decoded
    /\ ~trend.hasResults

(* C10: in both clients a 401 or 403 response raises the authentication    *)
(* error and any other error status or network failure raises a request    *)
(* error; the two are distinct and both are caught by the caller.          *)
Classified(resp, e) ==
    /\ (resp.kind = "http" /\ resp.status \in {401, 403})
          => (IsAuthError(e) /\ ~IsRequestError(e))
    /\ (resp.kind # "http" \/ (resp.status >= 400 /\ resp.status \notin {401, 403}))
          => (IsRequestError(e) /\ ~IsAuthError(e))

C10_ErrorsClassified ==
    /\ trendResp # NoResp
          => /\ Classified(trendResp, trendErr)
             /\ Failed(trendResp) => (pc = "stopped" /\ crash = NoExc)
    /\ \A i \in 1..Len(newsResps) :
          /\ Classified(newsResps[i], sections[i].warning)
          /\ Failed(newsResps[i]) => crash = NoExc

C10_Witness ==
    /\ Len(newsResps) = 2
    /\ newsResps[1].status = 403
    /\ newsResps[2].status = 500
    /\ IsAuthError(sections[1].warning)
    /\ IsRequestError(sections[2].warning)

=============================================================================
